---------------------------- MODULE Spec2Model ----------------------------
(***************************************************************************)
(* Model of the API gateway of src/LoadBalancing/gateway.py: the           *)
(* round-robin LoadBalancer, the sliding-window RateLimiter, the           *)
(* health_check_task loop and the request path (rate_limit_middleware and  *)
(* proxy_request).                                                         *)
(*                                                                         *)
(* The gateway runs on one asyncio event loop: a coroutine runs without    *)
(* interruption up to its next await, so every action below is one such    *)
(* synchronous block.  time.time() is read from a clock that other actions *)
(* cannot move but that advances by itself (Tick).                         *)
(***************************************************************************)
EXTENDS Integers, Sequences, FiniteSets, TLC

VARIABLES
    current_index,      \* LoadBalancer.current_index
    healthy_services,   \* LoadBalancer.healthy_services (a Python list)
    hc_pos,             \* health_check_task: index of the service probed next, 0 while in asyncio.sleep
    hist,               \* observation: the pool calls made so far and what they returned
    max_requests,       \* RateLimiter.max_requests
    window_seconds,     \* RateLimiter.window_seconds
    requests,           \* RateLimiter.requests: client_ip -> list of timestamps
    now,                \* the clock read by time.time()
    accepted,           \* observation: per client, the instants at which is_allowed returned True
    ret,                \* observation: the last RateLimiter call made directly and its result
    req                 \* the in-flight HTTP requests: position and local variables of each

vars == <<current_index, healthy_services, hc_pos, hist, max_requests,
          window_seconds, requests, now, accepted, ret, req>>

poolVars    == <<current_index, healthy_services, hc_pos, hist>>
limiterVars == <<max_requests, window_seconds, requests, now, accepted, ret>>

(***************************************************************************)
(* Bounds of the model.                                                    *)
(***************************************************************************)
MaxCalls == 4      \* get_next_service calls made directly on the pool (SpecPool)
MaxFlips == 4      \* health transitions recorded in hist
MaxRouted == 6     \* requests routed in the rotation scenario (SpecRotation)

(***************************************************************************)
(* Configuration.                                                          *)
(***************************************************************************)
A == "http://localhost:8001"
B == "http://localhost:8002"
C == "http://localhost:8003"

BACKEND_SERVICES == <<A, B, C>>

services == BACKEND_SERVICES

None == "None"
HTTP503 == "503 No healthy backend services available"

(***************************************************************************)
(* Python list helpers.                                                    *)
(***************************************************************************)
Range(s) == {s[i] : i \in DOMAIN s}

\* list.remove(x): drops the first occurrence of x
ListRemove(s, x) ==
    LET first == CHOOSE i \in DOMAIN s : s[i] = x /\ \A j \in 1..(i-1) : s[j] # x
    IN  SubSeq(s, 1, first - 1) \o SubSeq(s, first + 1, Len(s))

(***************************************************************************)
(* LoadBalancer                                                            *)
(***************************************************************************)
\* get_next_service without `self.current_index += 1`
get_next_service_stuck(index, healthy) ==
    IF healthy = <<>>
    THEN [raised |-> TRUE, service |-> HTTP503, current_index |-> index]
    ELSE [raised |-> FALSE,
          service |-> healthy[(index % Len(healthy)) + 1],
          current_index |-> index]

\* get_next_service that counts the call before it looks at the healthy list
get_next_service_counts_first(index, healthy) ==
    IF healthy = <<>>
    THEN [raised |-> TRUE, service |-> HTTP503, current_index |-> index + 1]
    ELSE [raised |-> FALSE,
          service |-> healthy[(index % Len(healthy)) + 1],
          current_index |-> index + 1]

\* get_next_service: the value returned (or the HTTPException raised) and the
\* new current_index
get_next_service(index, healthy) ==
    IF healthy = <<>>
    THEN [raised |-> TRUE, service |-> HTTP503, current_index |-> index]
    ELSE [raised |-> FALSE,
          service |-> healthy[(index % Len(healthy)) + 1],
          current_index |-> index + 1]

\* mark_unhealthy that never removes the last healthy service
mark_unhealthy_keep_one(healthy, service) ==
    IF service \in Range(healthy) /\ Len(healthy) > 1
    THEN ListRemove(healthy, service)
    ELSE healthy

\* mark_unhealthy: the new healthy_services
mark_unhealthy(healthy, service) ==
    IF service \in Range(healthy) THEN ListRemove(healthy, service) ELSE healthy

\* mark_healthy that puts the service back at its configured position
mark_healthy_in_place(healthy, service) ==
    IF service \notin Range(healthy) /\ service \in Range(services)
    THEN SelectSeq(services, LAMBDA s : s \in Range(healthy) \cup {service})
    ELSE healthy

\* mark_healthy that puts the service at the head of the list
mark_healthy_at_front(healthy, service) ==
    IF service \notin Range(healthy) /\ service \in Range(services)
    THEN <<service>> \o healthy
    ELSE healthy

\* mark_healthy without the membership test
mark_healthy_unchecked(healthy, service) == Append(healthy, service)

\* mark_healthy: the new healthy_services
mark_healthy(healthy, service) ==
    IF service \notin Range(healthy) /\ service \in Range(services)
    THEN Append(healthy, service)
    ELSE healthy

(***************************************************************************)
(* health_check_task: one probe of the round.  The outcome of the awaited  *)
(* GET <service>/health is the backend's: status 200, another status, or   *)
(* an exception (timeout, connection error).                               *)
(***************************************************************************)
ProbeOutcomes == {"200", "non200", "exception"}

probe_applied(healthy, service, outcome) ==
    IF outcome = "200" THEN mark_healthy(healthy, service)
                       ELSE mark_unhealthy(healthy, service)

\* a monitor that runs one round and returns: position Len + 1 is past the
\* loop
hc_next_one_round(pos) ==
    IF pos < Len(BACKEND_SERVICES) THEN pos + 1 ELSE Len(BACKEND_SERVICES) + 1

\* a monitor whose round ends one service early
hc_next_skips_last(pos) == IF pos < Len(BACKEND_SERVICES) - 1 THEN pos + 1 ELSE 0

\* position after probing service number pos: the next service, or the sleep
hc_next(pos) == IF pos < Len(BACKEND_SERVICES) THEN pos + 1 ELSE 0

(***************************************************************************)
(* Observation of the pool: hist records each get_next_service call with   *)
(* its result, and each mark_unhealthy / mark_healthy call that changes    *)
(* what the callers last said about the endpoint (a repeated mark of the   *)
(* same kind is not recorded again).                                       *)
(***************************************************************************)
IsFlip(e) == e.op \in {"down", "up"}

NumCalls == Cardinality({i \in DOMAIN hist : hist[i].op = "next"})
NumFlips == Cardinality({i \in DOMAIN hist : IsFlip(hist[i])})

\* what the callers last said about endpoint s: TRUE when marked unhealthy
MarkedDown(h, s) ==
    LET idx == {i \in DOMAIN h : IsFlip(h[i]) /\ h[i].svc = s}
    IN  idx # {} /\ h[CHOOSE i \in idx : \A j \in idx : j <= i].op = "down"

LogMark(h, op, s) ==
    IF (op = "down") = MarkedDown(h, s) THEN h ELSE Append(h, [op |-> op, svc |-> s])

MarkAllowed(op, s) == (op = "down") = MarkedDown(hist, s) \/ NumFlips < MaxFlips

(***************************************************************************)
(* RateLimiter                                                             *)
(***************************************************************************)
Clients == {"10.0.0.1", "10.0.0.2"}

\* the client of the specifications that follow a single client
Caller == CHOOSE c \in Clients : TRUE

IntMax(a, b) == IF a >= b THEN a ELSE b

ListMin(ts) == CHOOSE x \in Range(ts) : \A y \in Range(ts) : x <= y

\* the list comprehension with `<=` for `<`
prune_inclusive(ts, current_time) ==
    SelectSeq(ts, LAMBDA req_time : current_time - req_time <= window_seconds)

\* the list comprehension of is_allowed and get_remaining_requests
prune(ts, current_time) ==
    SelectSeq(ts, LAMBDA req_time : current_time - req_time < window_seconds)

\* is_allowed with `>` for `>=` in the limit check
is_allowed_off_by_one(ts, current_time) ==
    LET kept == prune(ts, current_time)
    IN  IF Len(kept) > max_requests
        THEN [allowed |-> FALSE, timestamps |-> kept]
        ELSE [allowed |-> TRUE, timestamps |-> Append(kept, current_time)]

\* is_allowed that records the attempt it rejects
is_allowed_records_rejected(ts, current_time) ==
    LET kept == prune(ts, current_time)
    IN  IF Len(kept) >= max_requests
        THEN [allowed |-> FALSE, timestamps |-> Append(kept, current_time)]
        ELSE [allowed |-> TRUE, timestamps |-> Append(kept, current_time)]

\* is_allowed: the value returned and the new requests[client_ip]
is_allowed(ts, current_time) ==
    LET kept == prune(ts, current_time)
    IN  IF Len(kept) >= max_requests
        THEN [allowed |-> FALSE, timestamps |-> kept]
        ELSE [allowed |-> TRUE, timestamps |-> Append(kept, current_time)]

\* get_remaining_requests without the clean-up of old requests
get_remaining_requests_unpruned(ts, current_time) ==
    [remaining |-> IntMax(0, max_requests - Len(ts)), timestamps |-> ts]

\* get_remaining_requests: the value returned and the new requests[client_ip]
get_remaining_requests(ts, current_time) ==
    LET kept == prune(ts, current_time)
    IN  [remaining |-> IntMax(0, max_requests - Len(kept)), timestamps |-> kept]

\* get_reset_time without the max(0, ...)
get_reset_time_unclamped(ts, current_time) ==
    IF ts = <<>>
    THEN 0
    ELSE (ListMin(ts) + window_seconds) - current_time

\* get_reset_time: the value returned (requests[client_ip] is only read)
get_reset_time(ts, current_time) ==
    IF ts = <<>>
    THEN 0
    ELSE IntMax(0, (ListMin(ts) + window_seconds) - current_time)

(***************************************************************************)
(* The clock.  time.time() is taken at whole instants; the model follows   *)
(* the clock up to MaxLate instants past one window, at the instants next  *)
(* to a multiple of window_seconds (for a window of up to 3 seconds these  *)
(* are all of them).                                                       *)
(***************************************************************************)
MaxLate == 1

Horizon == window_seconds + MaxLate

Instants ==
    {t \in 0..Horizon : t % window_seconds \in {0, 1, window_seconds - 1}}

Tick ==
    /\ \E t \in Instants : t > now /\ now' = t
    /\ UNCHANGED <<max_requests, window_seconds, requests, accepted, ret>>
    /\ UNCHANGED <<poolVars, req>>

(***************************************************************************)
(* Calls made directly on the RateLimiter.  ret keeps what the last call   *)
(* was, the instant it read and what it returned.                          *)
(***************************************************************************)
NoRet == [op |-> "none", client |-> None, at |-> 0, allowed |-> FALSE, value |-> 0]

CallIsAllowed(c) ==
    /\ LET r == is_allowed(requests[c], now)
       IN  /\ requests' = [requests EXCEPT ![c] = r.timestamps]
           /\ accepted' = IF r.allowed
                              THEN [accepted EXCEPT ![c] = Append(@, now)]
                              ELSE accepted
           /\ ret' = [op |-> "is_allowed", client |-> c, at |-> now,
                      allowed |-> r.allowed, value |-> 0]
    /\ UNCHANGED <<max_requests, window_seconds, now>>
    /\ UNCHANGED <<poolVars, req>>

CallGetRemaining(c) ==
    /\ LET r == get_remaining_requests(requests[c], now)
       IN  /\ requests' = [requests EXCEPT ![c] = r.timestamps]
           /\ ret' = [op |-> "get_remaining_requests", client |-> c, at |-> now,
                      allowed |-> FALSE, value |-> r.remaining]
    /\ UNCHANGED <<max_requests, window_seconds, now, accepted>>
    /\ UNCHANGED <<poolVars, req>>

CallGetResetTime(c) ==
    /\ ret' = [op |-> "get_reset_time", client |-> c, at |-> now,
               allowed |-> FALSE, value |-> get_reset_time(requests[c], now)]
    /\ UNCHANGED <<max_requests, window_seconds, now, accepted, requests>>
    /\ UNCHANGED <<poolVars, req>>

(***************************************************************************)
(* Calls made directly on the LoadBalancer, and the health monitor acting  *)
(* on it.                                                                  *)
(***************************************************************************)
CallGetNext(limit) ==
    /\ NumCalls < limit
    /\ LET r == get_next_service(current_index, healthy_services)
       IN  /\ current_index' = r.current_index
           /\ hist' = Append(hist, [op |-> "next", svc |-> r.service])
    /\ UNCHANGED <<healthy_services, hc_pos>>
    /\ UNCHANGED <<limiterVars, req>>

\* the services get_next_service has handed out so far
Picked == {hist[i].svc : i \in {j \in DOMAIN hist : hist[j].op = "next"}}
              \cap Range(services)

\* proxy_request's handler of httpx.RequestError: mark_unhealthy(service_url),
\* for a service_url that get_next_service returned earlier
CallMarkUnhealthy(s) ==
    /\ s \in Picked
    /\ MarkAllowed("down", s)
    /\ healthy_services' = mark_unhealthy(healthy_services, s)
    /\ hist' = LogMark(hist, "down", s)
    /\ UNCHANGED <<current_index, hc_pos>>
    /\ UNCHANGED <<limiterVars, req>>

\* what a probe outcome makes the monitor say about the service
MarkOf(outcome) == IF outcome = "200" THEN "up" ELSE "down"

PoolProbe(outcome) ==
    /\ hc_pos \in DOMAIN BACKEND_SERVICES
    /\ outcome \in ProbeOutcomes
    /\ LET service == BACKEND_SERVICES[hc_pos]
       IN  /\ MarkAllowed(MarkOf(outcome), service)
           /\ healthy_services' = probe_applied(healthy_services, service, outcome)
           /\ hist' = LogMark(hist, MarkOf(outcome), service)
    /\ hc_pos' = hc_next(hc_pos)
    /\ UNCHANGED current_index
    /\ UNCHANGED <<limiterVars, req>>

(***************************************************************************)
(* The request path.  Each request runs rate_limit_middleware, which       *)
(* awaits call_next (the endpoint's handler) and then adds the rate-limit  *)
(* headers.  req[r].pc is where request r stands:                          *)
(*   "new"          not received yet                                       *)
(*   "reject_remaining", "reject_reset"   inside the 429 branch            *)
(*   "handler"      admitted, the awaited handler has not run yet          *)
(*   "forwarding"   proxy_request awaits the backend's response            *)
(*   "stats_reset"  inside get_stats, before get_reset_time                *)
(*   "returning"    the handler has produced its response                  *)
(*   "after_reset"  inside the middleware's tail, before get_reset_time    *)
(*   "done"         the response has left the gateway and the locals of    *)
(*                  the request are gone                                   *)
(* While a request is inside one synchronous block (Busy) no other         *)
(* coroutine runs; only the clock moves.                                   *)
(***************************************************************************)
NumReqs == 2

Reqs == 1..NumReqs

ExemptPaths == {"/", "/health", "/services"}
StatsPath == "/stats"
ApiPath == "/api/data"

NewReq ==
    [pc |-> "new", client |-> None, path |-> None, service_url |-> None,
     status |-> 0, remaining |-> 0]

DoneReq == [NewReq EXCEPT !.pc = "done"]

SyncPcs == {"reject_remaining", "reject_reset", "stats_reset", "after_reset"}

Busy == \E r \in Reqs : req[r].pc \in SyncPcs

\* what the awaited backend call of proxy_request can end in:
\*   "json_2xx"       a 2xx response with a JSON body
\*   "json_error"     a well-formed non-2xx response with a JSON body
\*   "request_error"  httpx.RequestError: connection refused, timeout, DNS
\*                    failure, protocol error
\*   "bad_body"       a response whose body response.json() cannot parse
ForwardOutcomes == {"json_2xx", "json_error", "request_error", "bad_body"}

\* the try/except of proxy_request if a non-2xx answer counted against the
\* endpoint's health
forward_result_error_demotes(healthy, service_url, outcome) ==
    CASE outcome = "json_2xx" ->
           [status |-> 200, healthy |-> healthy]
      [] outcome = "json_error" ->
           [status |-> 404, healthy |-> mark_unhealthy(healthy, service_url)]
      [] outcome = "request_error" ->
           [status |-> 503, healthy |-> mark_unhealthy(healthy, service_url)]
      [] OTHER ->
           [status |-> 500, healthy |-> healthy]

\* the try/except of proxy_request if `except Exception` also called
\* mark_unhealthy
forward_result_any_demotes(healthy, service_url, outcome) ==
    CASE outcome = "json_2xx" ->
           [status |-> 200, healthy |-> healthy]
      [] outcome = "json_error" ->
           [status |-> 404, healthy |-> healthy]
      [] OTHER ->
           [status |-> IF outcome = "request_error" THEN 503 ELSE 500,
            healthy |-> mark_unhealthy(healthy, service_url)]

\* the try/except of proxy_request: the status of the gateway's response (the
\* backend's own for a well-formed response: 200, or 404 for the non-2xx one)
\* and the new healthy_services
forward_result(healthy, service_url, outcome) ==
    CASE outcome = "json_2xx" ->
           [status |-> 200, healthy |-> healthy]
      [] outcome = "json_error" ->
           [status |-> 404, healthy |-> healthy]
      [] outcome = "request_error" ->
           [status |-> 503, healthy |-> mark_unhealthy(healthy, service_url)]
      [] OTHER ->
           [status |-> 500, healthy |-> healthy]

\* rate_limit_middleware up to `await call_next(request)` or to the 429 branch
Middleware(r, c, p) ==
    /\ ~Busy
    /\ req[r].pc = "new"
    /\ IF p \in ExemptPaths
       THEN /\ req' = [req EXCEPT ![r] = [@ EXCEPT !.pc = "handler",
                                                   !.client = c, !.path = p]]
            /\ UNCHANGED <<requests, accepted>>
       ELSE LET a == is_allowed(requests[c], now)
            IN  /\ requests' = [requests EXCEPT ![c] = a.timestamps]
                /\ accepted' = IF a.allowed
                                   THEN [accepted EXCEPT ![c] = Append(@, now)]
                                   ELSE accepted
                /\ req' = [req EXCEPT ![r] =
                             [@ EXCEPT !.pc = IF a.allowed THEN "handler"
                                                           ELSE "reject_remaining",
                                       !.client = c, !.path = p]]
    /\ UNCHANGED <<max_requests, window_seconds, now, ret, poolVars>>

\* the 429 branch: remaining = get_remaining_requests(client_ip)
RejectRemaining(r) ==
    /\ req[r].pc = "reject_remaining"
    /\ LET g == get_remaining_requests(requests[req[r].client], now)
       IN  /\ requests' = [requests EXCEPT ![req[r].client] = g.timestamps]
           /\ req' = [req EXCEPT ![r] = [@ EXCEPT !.pc = "reject_reset",
                                                  !.status = 429,
                                                  !.remaining = g.remaining]]
    /\ UNCHANGED <<max_requests, window_seconds, now, accepted, ret, poolVars>>

\* the 429 branch: reset_time = get_reset_time(client_ip), then the response
RejectReset(r) ==
    /\ req[r].pc = "reject_reset"
    /\ get_reset_time(requests[req[r].client], now) >= 0
    /\ req' = [req EXCEPT ![r] = DoneReq]
    /\ UNCHANGED <<limiterVars, poolVars>>

\* proxy_request up to the awaited backend call
ProxySelect(r) ==
    /\ ~Busy
    /\ req[r].pc = "handler"
    /\ req[r].path = ApiPath
    /\ LET n == get_next_service(current_index, healthy_services)
       IN  /\ current_index' = n.current_index
           /\ req' = [req EXCEPT ![r] =
                        IF n.raised
                        THEN [@ EXCEPT !.pc = "returning", !.status = 503]
                        ELSE [@ EXCEPT !.pc = "forwarding", !.service_url = n.service]]
    /\ UNCHANGED <<healthy_services, hc_pos, hist, limiterVars>>

\* proxy_request from the backend's answer to its own response
ProxyReply(r, outcome) ==
    /\ ~Busy
    /\ req[r].pc = "forwarding"
    /\ outcome \in ForwardOutcomes
    /\ LET f == forward_result(healthy_services, req[r].service_url, outcome)
       IN  /\ healthy_services' = f.healthy
           /\ req' = [req EXCEPT ![r] = [@ EXCEPT !.pc = "returning",
                                                  !.status = f.status]]
    /\ UNCHANGED <<current_index, hc_pos, hist, limiterVars>>

\* root, health and list_services: read-only; the middleware returns their
\* response as it is
InfoHandler(r) ==
    /\ ~Busy
    /\ req[r].pc = "handler"
    /\ req[r].path \in ExemptPaths
    /\ req' = [req EXCEPT ![r] = DoneReq]
    /\ UNCHANGED <<limiterVars, poolVars>>

\* get_stats: remaining_requests = get_remaining_requests(client_ip)
StatsRemaining(r) ==
    /\ ~Busy
    /\ req[r].pc = "handler"
    /\ req[r].path = StatsPath
    /\ LET g == get_remaining_requests(requests[req[r].client], now)
       IN  /\ requests' = [requests EXCEPT ![req[r].client] = g.timestamps]
           /\ req' = [req EXCEPT ![r] = [@ EXCEPT !.pc = "stats_reset"]]
    /\ UNCHANGED <<max_requests, window_seconds, now, accepted, ret, poolVars>>

\* get_stats: reset_in_seconds = get_reset_time(client_ip), then the response
StatsReset(r) ==
    /\ req[r].pc = "stats_reset"
    /\ req' = [req EXCEPT ![r] = [@ EXCEPT !.pc = "returning", !.status = 200]]
    /\ UNCHANGED <<limiterVars, poolVars>>

\* the middleware's tail: remaining = get_remaining_requests(client_ip)
AfterRemaining(r) ==
    /\ ~Busy
    /\ req[r].pc = "returning"
    /\ LET g == get_remaining_requests(requests[req[r].client], now)
       IN  /\ requests' = [requests EXCEPT ![req[r].client] = g.timestamps]
           /\ req' = [req EXCEPT ![r] = [@ EXCEPT !.pc = "after_reset",
                                                  !.remaining = g.remaining]]
    /\ UNCHANGED <<max_requests, window_seconds, now, accepted, ret, poolVars>>

\* the middleware's tail: reset_time = get_reset_time(client_ip), the headers,
\* and the response
AfterReset(r) ==
    /\ req[r].pc = "after_reset"
    /\ get_reset_time(requests[req[r].client], now) >= 0
    /\ req' = [req EXCEPT ![r] = DoneReq]
    /\ UNCHANGED <<limiterVars, poolVars>>

\* health_check_task: one probe and its mark
HealthCheckProbe(outcome) ==
    /\ ~Busy
    /\ hc_pos \in DOMAIN BACKEND_SERVICES
    /\ outcome \in ProbeOutcomes
    /\ healthy_services' =
          probe_applied(healthy_services, BACKEND_SERVICES[hc_pos], outcome)
    /\ hc_pos' = hc_next(hc_pos)
    /\ UNCHANGED <<current_index, hist, limiterVars, req>>

\* await asyncio.sleep(10) returns: the next round starts
HealthCheckSleep ==
    /\ ~Busy
    /\ hc_pos = 0
    /\ hc_pos' = 1
    /\ UNCHANGED <<current_index, healthy_services, hist>>
    /\ UNCHANGED <<limiterVars, req>>

(***************************************************************************)
(* Initial states.                                                         *)
(***************************************************************************)
\* LoadBalancer(BACKEND_SERVICES); startup_event has created health_check_task
InitPool ==
    /\ current_index = 0
    /\ healthy_services = services
    /\ hc_pos = 1
    /\ hist = <<>>

\* RateLimiter(max_requests, window_seconds) for a configuration of configs
InitLimiter(configs) ==
    /\ \E cfg \in configs : max_requests = cfg[1] /\ window_seconds = cfg[2]
    /\ requests = [c \in Clients |-> <<>>]
    /\ now = 0
    /\ accepted = [c \in Clients |-> <<>>]
    /\ ret = NoRet

InitReqs == req = [r \in Reqs |-> NewReq]

\* rate_limiter = RateLimiter(max_requests=5, window_seconds=60)
DeployedConfig == <<5, 60>>

\* other configurations of RateLimiter the limiter is checked under
SmallConfigs == {<<2, 3>>, <<1, 2>>}

(***************************************************************************)
(* SpecPool: the LoadBalancer under direct calls and the health monitor.   *)
(***************************************************************************)
InitPoolSpec == InitPool /\ InitLimiter({DeployedConfig}) /\ InitReqs

NextPool ==
    \/ CallGetNext(MaxCalls)
    \/ \E s \in Range(services) : CallMarkUnhealthy(s)
    \/ \E outcome \in ProbeOutcomes : PoolProbe(outcome)
    \/ HealthCheckSleep

SpecPool == InitPoolSpec /\ [][NextPool]_vars

(***************************************************************************)
(* SpecRotation: the pool while the backends of A and C stay reachable and *)
(* only B's backend comes and goes: requests are routed, a request routed  *)
(* to B may fail, and the monitor's probe of B may fail.                   *)
(***************************************************************************)
NextRotation ==
    \/ CallGetNext(MaxRouted)
    \/ CallMarkUnhealthy(B)
    \/ \E outcome \in ProbeOutcomes :
          /\ hc_pos \in DOMAIN BACKEND_SERVICES
          /\ BACKEND_SERVICES[hc_pos] # B => outcome = "200"
          /\ PoolProbe(outcome)
    \/ HealthCheckSleep

SpecRotation == InitPoolSpec /\ [][NextRotation]_vars

(***************************************************************************)
(* SpecLimiter: the RateLimiter under direct calls, with the clock.        *)
(***************************************************************************)
InitLimiterSpec == InitPool /\ InitLimiter(SmallConfigs) /\ InitReqs

NextLimiter ==
    \/ \E c \in Clients : CallIsAllowed(c)
    \/ \E c \in Clients : CallGetRemaining(c)
    \/ \E c \in Clients : CallGetResetTime(c)
    \/ Tick

SpecLimiter == InitLimiterSpec /\ [][NextLimiter]_vars

(***************************************************************************)
(* SpecWindow: one client calling is_allowed as the clock advances, under  *)
(* the deployed configuration and the small ones.                          *)
(***************************************************************************)
InitWindowSpec ==
    InitPool /\ InitLimiter({DeployedConfig} \cup SmallConfigs) /\ InitReqs

NextWindow ==
    \/ CallIsAllowed(Caller)
    \/ Tick

SpecWindow == InitWindowSpec /\ [][NextWindow]_vars

(***************************************************************************)
(* Spec: the gateway.  Requests of the clients arrive and are handled      *)
(* concurrently, the health monitor runs beside them, the clock advances.  *)
(***************************************************************************)
GatewayConfigs == {<<1, 2>>}

Paths == ExemptPaths \cup {StatsPath, ApiPath}

\* the paths of the forwarding route
ApiPaths == {ApiPath}

Init == InitPool /\ InitLimiter(GatewayConfigs) /\ InitReqs

Next ==
    \/ \E r \in Reqs, c \in Clients, p \in Paths : Middleware(r, c, p)
    \/ \E r \in Reqs : RejectRemaining(r)
    \/ \E r \in Reqs : RejectReset(r)
    \/ \E r \in Reqs : InfoHandler(r)
    \/ \E r \in Reqs : StatsRemaining(r)
    \/ \E r \in Reqs : StatsReset(r)
    \/ \E r \in Reqs : ProxySelect(r)
    \/ \E r \in Reqs, outcome \in ForwardOutcomes : ProxyReply(r, outcome)
    \/ \E r \in Reqs : AfterRemaining(r)
    \/ \E r \in Reqs : AfterReset(r)
    \/ \E outcome \in ProbeOutcomes : HealthCheckProbe(outcome)
    \/ HealthCheckSleep
    \/ Tick

Spec == Init /\ [][Next]_vars

(***************************************************************************)
(* SpecAdmission: the gateway as far as the RateLimiter can tell.  The     *)
(* limiter reads and writes only its own fields and the clock, so the      *)
(* backends are taken to answer every forwarded request with a well-formed *)
(* response and the monitor's probes (which then change nothing) are left  *)
(* out.  The requests are those of the forwarding route.                   *)
(***************************************************************************)
WellFormed == {"json_2xx", "json_error"}

NextAdmission ==
    \/ \E r \in Reqs, c \in Clients, p \in ApiPaths : Middleware(r, c, p)
    \/ \E r \in Reqs : RejectRemaining(r)
    \/ \E r \in Reqs : RejectReset(r)
    \/ \E r \in Reqs : ProxySelect(r)
    \/ \E r \in Reqs, outcome \in WellFormed : ProxyReply(r, outcome)
    \/ \E r \in Reqs : AfterRemaining(r)
    \/ \E r \in Reqs : AfterReset(r)
    \/ Tick

SpecAdmission == Init /\ [][NextAdmission]_vars

(***************************************************************************)
(* SpecRouting: the gateway as far as the LoadBalancer can tell.  The pool *)
(* never reads the clock or the limiter, so the requests are those of one  *)
(* client within one instant under the deployed limit, which admits them   *)
(* all; backends and probes answer in every way.                           *)
(***************************************************************************)
InitRouting == InitPool /\ InitLimiter({DeployedConfig}) /\ InitReqs

NextRouting ==
    \/ \E r \in Reqs, p \in ApiPaths : Middleware(r, Caller, p)
    \/ \E r \in Reqs : ProxySelect(r)
    \/ \E r \in Reqs, outcome \in ForwardOutcomes : ProxyReply(r, outcome)
    \/ \E r \in Reqs : AfterRemaining(r)
    \/ \E r \in Reqs : AfterReset(r)
    \/ \E outcome \in ProbeOutcomes : HealthCheckProbe(outcome)
    \/ HealthCheckSleep

SpecRouting == InitRouting /\ [][NextRouting]_vars

(***************************************************************************)
(* SpecIntrospection: the gateway serving its own endpoints: root, health, *)
(* list_services and get_stats.  None of them forwards to a backend or     *)
(* awaits anything the monitor could change.                               *)
(***************************************************************************)
IntrospectionPaths == ExemptPaths \cup {StatsPath}

NextIntrospection ==
    \/ \E r \in Reqs, c \in Clients, p \in IntrospectionPaths : Middleware(r, c, p)
    \/ \E r \in Reqs : RejectRemaining(r)
    \/ \E r \in Reqs : RejectReset(r)
    \/ \E r \in Reqs : InfoHandler(r)
    \/ \E r \in Reqs : StatsRemaining(r)
    \/ \E r \in Reqs : StatsReset(r)
    \/ \E r \in Reqs : AfterRemaining(r)
    \/ \E r \in Reqs : AfterReset(r)
    \/ Tick

SpecIntrospection == Init /\ [][NextIntrospection]_vars

(***************************************************************************)
(* SpecConvergence: the monitor beside a forwarded request, under the      *)
(* scheduling the event loop gives.  A probe's await ends (the client has  *)
(* timeout=5.0) and asyncio.sleep(10) returns, so the monitor's steps are  *)
(* weakly fair; a request that is inside a synchronous block runs it to    *)
(* its end.  Backends and probes answer in every way.                      *)
(***************************************************************************)
Forwarded == {CHOOSE r \in Reqs : TRUE}

NextConvergence ==
    \/ \E r \in Forwarded, p \in ApiPaths : Middleware(r, Caller, p)
    \/ \E r \in Forwarded : ProxySelect(r)
    \/ \E r \in Forwarded, outcome \in ForwardOutcomes : ProxyReply(r, outcome)
    \/ \E r \in Forwarded : AfterRemaining(r)
    \/ \E r \in Forwarded : AfterReset(r)
    \/ \E outcome \in ProbeOutcomes : HealthCheckProbe(outcome)
    \/ HealthCheckSleep

SpecConvergence ==
    /\ InitRouting
    /\ [][NextConvergence]_vars
    /\ WF_vars(\E outcome \in ProbeOutcomes : HealthCheckProbe(outcome))
    /\ WF_vars(HealthCheckSleep)
    /\ WF_vars(\E r \in Forwarded : AfterReset(r))

(***************************************************************************)
(* SpecOutage: SpecRouting while backends go down and stay down: a probe   *)
(* answers 200 only for an endpoint that is in the healthy set, so no      *)
(* endpoint enters the healthy set again and each has one healthy period,  *)
(* from the start to its removal.                                          *)
(***************************************************************************)
NextOutage ==
    \/ \E r \in Reqs, p \in ApiPaths : Middleware(r, Caller, p)
    \/ \E r \in Reqs : ProxySelect(r)
    \/ \E r \in Reqs, outcome \in ForwardOutcomes : ProxyReply(r, outcome)
    \/ \E r \in Reqs : AfterRemaining(r)
    \/ \E r \in Reqs : AfterReset(r)
    \/ \E outcome \in ProbeOutcomes :
          /\ hc_pos \in DOMAIN BACKEND_SERVICES
          /\ outcome = "200" => BACKEND_SERVICES[hc_pos] \in Range(healthy_services)
          /\ HealthCheckProbe(outcome)
    \/ HealthCheckSleep

SpecOutage == InitRouting /\ [][NextOutage]_vars

(***************************************************************************)
(* Properties of the LoadBalancer.                                         *)
(***************************************************************************)
LastFlip(h) ==
    LET idx == {i \in DOMAIN h : IsFlip(h[i])}
    IN  IF idx = {} THEN 0 ELSE CHOOSE i \in idx : \A j \in idx : j <= i

\* what the get_next_service calls made since the last health transition returned
Run == [i \in 1..(Len(hist) - LastFlip(hist)) |-> hist[LastFlip(hist) + i].svc]

PosIn(seq, x) == CHOOSE i \in DOMAIN seq : seq[i] = x /\ \A j \in 1..(i-1) : seq[j] # x

CyclicSucc(seq, x) == seq[(PosIn(seq, x) % Len(seq)) + 1]

\* the healthy endpoints in the order of `services`
HealthyConfigured == SelectSeq(services, LAMBDA s : s \in Range(healthy_services))

\* consecutive results follow the cyclic order of `order`, every N of them are
\* each healthy endpoint once, and the (N+1)-th is the first again
RoundRobinOver(order) ==
    LET N == Len(healthy_services)
    IN  N >= 1 =>
          /\ \A i \in DOMAIN Run : Run[i] \in Range(healthy_services)
          /\ \A i \in 1..(Len(Run) - 1) : Run[i + 1] = CyclicSucc(order, Run[i])
          /\ \A i \in 1..(Len(Run) - N + 1) :
                {Run[j] : j \in i..(i + N - 1)} = Range(healthy_services)
          /\ \A i \in 1..(Len(Run) - N) : Run[i + N] = Run[i]

\* C1 as stated: with no health transition in between, N consecutive
\* get_next_service calls return each healthy endpoint once, following the
\* configured order of `services` (cyclically), and the (N+1)-th call returns
\* the first again.
C1_ConfiguredOrder == RoundRobinOver(HealthyConfigured)

\* C1 as amended: with no health transition in between, N consecutive
\* get_next_service calls return each healthy endpoint once, following the
\* order of healthy_services (cyclically, from index current_index mod N), and
\* the (N+1)-th call returns the first again.
C1_RoundRobin == RoundRobinOver(healthy_services)

\* a full turn and its wrap-around over a healthy set that is not in configured order
C1_Witness ==
    /\ Len(healthy_services) = 3
    /\ healthy_services # services
    /\ Len(Run) >= 4

AllDown(h) == \A s \in Range(services) : MarkedDown(h, s)

\* C2: get_next_service never returns an endpoint whose last mark was
\* mark_unhealthy; with every endpoint marked unhealthy it raises the 503
\* error; and the first call after one mark_healthy(x) in that situation
\* returns x.
C2_HealthExclusion ==
    \A i \in DOMAIN hist :
        hist[i].op = "next" =>
            LET before == SubSeq(hist, 1, i - 1)
            IN  /\ hist[i].svc \in Range(services) \cup {HTTP503}
                /\ hist[i].svc \in Range(services) => ~MarkedDown(before, hist[i].svc)
                /\ AllDown(before) => hist[i].svc = HTTP503
                /\ (i >= 2 /\ hist[i - 1].op = "up" /\ AllDown(SubSeq(hist, 1, i - 2)))
                      => hist[i].svc = hist[i - 1].svc

\* every endpoint was down and a call failed; one endpoint came back and the
\* next call returned it
C2_Witness ==
    \E i \in DOMAIN hist :
        /\ i >= 3
        /\ hist[i].op = "next"
        /\ hist[i - 1].op = "up"
        /\ hist[i].svc = hist[i - 1].svc
        /\ AllDown(SubSeq(hist, 1, i - 2))
        /\ \E j \in 1..(i - 2) : hist[j] = [op |-> "next", svc |-> HTTP503]

\* the scenario of C9: the calls, and what the three kinds of call are expected
\* to return
Scenario ==
    << [op |-> "next", svc |-> A], [op |-> "next", svc |-> B],
       [op |-> "next", svc |-> C], [op |-> "down", svc |-> B],
       [op |-> "next", svc |-> C], [op |-> "next", svc |-> A],
       [op |-> "up", svc |-> B],   [op |-> "next", svc |-> B] >>

\* hist has made the first k calls of the scenario
FollowsScenario(k) ==
    /\ k <= Len(hist)
    /\ \A i \in 1..k :
          /\ hist[i].op = Scenario[i].op
          /\ IsFlip(Scenario[i]) => hist[i].svc = Scenario[i].svc

\* C9: from [A, B, C] all healthy and cursor 0, three requests select A, B, C;
\* after mark_unhealthy(B) the next two select C then A; after the monitor has
\* marked B healthy again the next request selects B.
C9_RotationScenario ==
    \A k \in DOMAIN Scenario : FollowsScenario(k) => hist[k].svc = Scenario[k].svc

\* the whole scenario has run and the probe round that brought B back is over
C9_Witness ==
    /\ hist = Scenario
    /\ hc_pos = 0
    /\ healthy_services = <<A, C, B>>

(***************************************************************************)
(* Properties of the RateLimiter.                                          *)
(***************************************************************************)
\* how many of the instants of log are equal to t
CountAt(log, t) == Cardinality({i \in DOMAIN log : log[i] = t})

\* the accepted instants of log still inside the window at instant t
InWindow(log, t) == {i \in DOMAIN log : t - log[i] < window_seconds}

SetMin(S) == CHOOSE x \in S : \A y \in S : x <= y

\* C4: for a client whose window is empty, max_requests calls of is_allowed at
\* one instant t0 all return true, every further call at an instant of
\* [t0, t0 + window_seconds) returns false, and a call at t0 + window_seconds
\* returns true again.
C4_SlidingWindow ==
    [][\A c \in Clients :
          CallIsAllowed(c) =>
            LET log == accepted[c]
            IN  /\ ( /\ \A i \in DOMAIN log :
                           log[i] = now \/ log[i] + window_seconds <= now
                     /\ CountAt(log, now) < max_requests )
                      => ret'.allowed
                /\ ( \E i \in DOMAIN log :
                         /\ CountAt(log, log[i]) = max_requests
                         /\ log[i] <= now
                         /\ now < log[i] + window_seconds )
                      => ~ret'.allowed
                /\ ( /\ log # <<>>
                     /\ CountAt(log, log[Len(log)]) = max_requests
                     /\ now = log[Len(log)] + window_seconds )
                      => ret'.allowed
      ]_vars

\* under max_requests=5, window_seconds=60: five calls accepted at one instant
\* and the next accepted call exactly 60 seconds later
C4_Witness ==
    /\ <<max_requests, window_seconds>> = DeployedConfig
    /\ \E t0 \in Instants :
          /\ accepted[Caller] = <<t0, t0, t0, t0, t0, t0 + 60>>
          /\ ret = [op |-> "is_allowed", client |-> Caller, at |-> t0 + 60,
                    allowed |-> TRUE, value |-> 0]

\* what C5 says get_reset_time(c) returns at instant t
ExpectedReset(c, t) ==
    LET inside == {accepted[c][i] : i \in InWindow(accepted[c], t)}
    IN  IF inside = {} THEN 0 ELSE IntMax(0, (SetMin(inside) + window_seconds) - t)

\* C5: get_reset_time(client) returns max(0, t_old + window_seconds - now) for
\* the oldest timestamp t_old of the client still inside the window, and 0 only
\* when the client has no timestamp inside the window.
C5_ResetTime ==
    (ret.op = "get_reset_time" /\ ret.at = now) =>
        /\ ret.value = ExpectedReset(ret.client, now)
        /\ ret.value = 0 => InWindow(accepted[ret.client], now) = {}

\* what get_reset_time would return for client c in the current state
ResetNow(c) == get_reset_time(requests[c], now)

\* from one state to the next, for client c: the result does not increase,
\* strictly decreases while positive when time advances, is 0 once the oldest
\* recorded timestamp has aged out, and is never negative
ResetDecreases(c) ==
    /\ ResetNow(c)' >= 0
    /\ ResetNow(c)' <= ResetNow(c)
    /\ (now' > now /\ ResetNow(c) > 0) => ResetNow(c)' < ResetNow(c)
    /\ now' >= ListMin(requests[c]) + window_seconds => ResetNow(c)' = 0

C7_Remaining ==
    /\ \A c \in Clients :
          LET r == get_remaining_requests(requests[c], now).remaining
          IN  /\ r = max_requests - Cardinality(InWindow(accepted[c], now))
              /\ r \in 0..max_requests
    /\ (ret.op = "get_remaining_requests" /\ ret.at = now) =>
          /\ ret.value = max_requests - Cardinality(InWindow(accepted[ret.client], now))
          /\ ret.value \in 0..max_requests

\* get_remaining_requests has returned 0 to a client that has used up the
\* window and has an older accepted timestamp that has aged out
C7_Witness ==
    /\ ret.op = "get_remaining_requests"
    /\ ret.at = now
    /\ ret.value = 0
    /\ Cardinality(InWindow(accepted[ret.client], now)) = max_requests
    /\ Len(accepted[ret.client]) > max_requests

(***************************************************************************)
(* Properties of the gateway.                                              *)
(***************************************************************************)
\* C3: for every client and every interleaving of the request handlers, the
\* number of is_allowed calls that returned true at instants of a half-open
\* interval [t, t + window_seconds) never exceeds max_requests.
C3_RateLimitBound ==
    \A c \in Clients : \A t \in 0..Horizon :
        Cardinality({i \in DOMAIN accepted[c] :
                        t <= accepted[c][i] /\ accepted[c][i] < t + window_seconds})
            <= max_requests

\* a client has used up its window with a request that is still in flight, and
\* another request of the same client is being rejected
C3_Witness ==
    \E r1, r2 \in Reqs :
        /\ req[r1].pc = "forwarding"
        /\ req[r2].pc = "reject_remaining"
        /\ req[r1].client = req[r2].client
        /\ Cardinality(InWindow(accepted[req[r1].client], now)) = max_requests

\* the ways a forwarded request fails at transport level, as C8 counts them
TransportFailures == {"request_error", "bad_body"}

\* C8: whenever forwarding to the selected endpoint e ends in a transport-level
\* failure (a body that cannot be parsed included), the response is the 503
\* and e has left the healthy set when it is produced; with a healthy pool
\* {A, B} and a failed request to A the next get_next_service returns B.
C8_FailureDemotes ==
    [][\A r \in Reqs : \A outcome \in TransportFailures :
          ProxyReply(r, outcome) =>
            /\ req'[r].status = 503
            /\ req[r].service_url \notin Range(healthy_services')
            /\ (Range(healthy_services) = {A, B} /\ req[r].service_url = A)
                  => get_next_service(current_index', healthy_services').service = B
      ]_vars

\* C10: when proxy_request runs while the healthy set is empty,
\* get_next_service raises the 503 error, no backend request is dispatched, no
\* other selection is made, and cursor and healthy set stay as they are, up to
\* the response.
C10_NoHealthyEndpoints ==
    [][\A r \in Reqs :
          /\ (ProxySelect(r) /\ healthy_services = <<>>) =>
                /\ req'[r].status = 503
                /\ req'[r].pc = "returning"
                /\ req'[r].service_url = None
                /\ current_index' = current_index
                /\ healthy_services' = healthy_services
          /\ ((AfterRemaining(r) \/ AfterReset(r)) /\ req[r].service_url = None) =>
                /\ current_index' = current_index
                /\ healthy_services' = healthy_services
      ]_vars

\* a request has found the healthy set empty and holds the 503 response
C10_Witness ==
    \E r \in Reqs :
        /\ req[r].pc = "returning"
        /\ req[r].status = 503
        /\ req[r].service_url = None
        /\ healthy_services = <<>>

\* what a step of a rejected request of client c must leave alone: no accepted
\* instant is recorded, the timestamps of c inside the window are the same,
\* the windows of the other clients, the cursor and the healthy set do not
\* change, and no endpoint is selected for request r
RejectionFrame(r, c) ==
    /\ accepted' = accepted
    /\ prune(requests'[c], now) = prune(requests[c], now)
    /\ \A d \in Clients \ {c} : requests'[d] = requests[d]
    /\ current_index' = current_index
    /\ healthy_services' = healthy_services
    /\ req'[r].service_url = None
    /\ req'[r].pc \in {"reject_remaining", "reject_reset", "done"}

\* C11: a request rejected by the rate limiter (429) adds no timestamp to the
\* client's window (the in-window timestamps are the same before and after
\* each of its steps), never reaches get_next_service, and leaves cursor and
\* healthy set unchanged.
C11_RejectionNoEffect ==
    [][\A r \in Reqs :
          /\ \A c \in Clients, p \in Paths :
                (Middleware(r, c, p) /\ req'[r].pc = "reject_remaining")
                    => RejectionFrame(r, c)
          /\ RejectRemaining(r) => (RejectionFrame(r, req[r].client)
                                      /\ req'[r].status = 429)
          /\ RejectReset(r) => (RejectionFrame(r, req[r].client)
                                  /\ req'[r].pc = "done")
      ]_vars

\* a request is half-way through the 429 branch while its client's window
\* holds max_requests timestamps
C11_Witness ==
    \E r \in Reqs :
        /\ req[r].pc = "reject_reset"
        /\ req[r].status = 429
        /\ Len(prune(requests[req[r].client], now)) = max_requests

\* a step of a request that changes nothing of the limiter's windows (the
\* timestamps of every client inside the window are the same, none is
\* recorded) nor of the pool
ReadOnlyStep ==
    /\ accepted' = accepted
    /\ \A c \in Clients : prune(requests'[c], now) = prune(requests[c], now)
    /\ current_index' = current_index
    /\ healthy_services' = healthy_services

\* C12: a request to '/', '/health', '/services' or '/stats' is never rejected
\* with 429, never records a timestamp in the caller's window, and leaves
\* cursor, healthy set and the limiter's windows unchanged, in the middleware
\* and in its handler.
C12_IntrospectionReadOnly ==
    [][\A r \in Reqs :
          /\ \A c \in Clients, p \in IntrospectionPaths :
                Middleware(r, c, p) =>
                    /\ ReadOnlyStep
                    /\ req'[r].pc = "handler"
          /\ (req[r].path \in IntrospectionPaths /\ req'[r] # req[r]) =>
                    /\ ReadOnlyStep
                    /\ req'[r].status # 429
      ]_vars

\* C13: when the selected backend returns a well-formed non-2xx response (the
\* 404 of the model), the gateway's response carries that status, the request
\* makes no second selection or dispatch, and the healthy set is the same
\* after each step the request takes from the answer to its response.
C13_BackendErrorFinal ==
    [][\A r \in Reqs :
          /\ ProxyReply(r, "json_error") =>
                /\ req'[r].status = 404
                /\ req'[r].pc = "returning"
                /\ healthy_services' = healthy_services
                /\ current_index' = current_index
          /\ (req[r].status = 404 /\ req'[r] # req[r]) =>
                /\ req'[r].pc \in {"after_reset", "done"}
                /\ req'[r].pc = "after_reset" => req'[r].status = 404
                /\ healthy_services' = healthy_services
                /\ current_index' = current_index
      ]_vars

\* the backend's 404 is on its way out through the middleware's tail and the
\* endpoint that produced it is still in the healthy set
C13_Witness ==
    \E r \in Reqs :
        /\ req[r].pc = "after_reset"
        /\ req[r].status = 404
        /\ req[r].service_url \in Range(healthy_services)

\* request r is the only request the gateway has received so far
OnlyRequest(r) == \A q \in Reqs \ {r} : req[q].pc = "new"

\* a proxied request that ends in the internal-error response: the failure
\* and every later step of the request leave healthy set and cursor alone,
\* and when it is the first request of the gateway the cursor stands at
\* `cursor` once the 500 is there
UnexpectedFailureLeaves(cursor) ==
    \A r \in Reqs :
        /\ ProxyReply(r, "bad_body") =>
              /\ req'[r].status = 500
              /\ healthy_services' = healthy_services
              /\ current_index' = current_index
        /\ (req[r].status = 500 /\ req'[r] # req[r]) =>
              /\ healthy_services' = healthy_services
              /\ current_index' = current_index
        /\ (req'[r].status = 500 /\ OnlyRequest(r)') => current_index' = cursor

\* C14 as stated: a proxied request that ends with an unexpected failure and
\* the 500 response leaves the healthy set and the cursor as they were before
\* the request started (for the first request of the gateway: cursor 0).
C14_PoolAsBefore == [][UnexpectedFailureLeaves(0)]_vars

\* C14 as amended: a proxied request that ends with an unexpected failure and
\* the 500 response leaves the healthy set as it was, and the cursor as its
\* own selection left it: one past its value before the request started (for
\* the first request of the gateway: cursor 1).
C14_PoolAfterSelection == [][UnexpectedFailureLeaves(1)]_vars

\* the first request of the gateway holds the 500 response; every endpoint is
\* still healthy and the cursor has moved on
C14_Witness ==
    \E r \in Reqs :
        /\ OnlyRequest(r)
        /\ req[r].pc = "returning"
        /\ req[r].status = 500
        /\ healthy_services = services
        /\ current_index = 1

\* a step of the monitor that probes endpoint s
ProbeOf(s) ==
    /\ hc_pos \in DOMAIN BACKEND_SERVICES
    /\ BACKEND_SERVICES[hc_pos] = s
    /\ \E outcome \in ProbeOutcomes : HealthCheckProbe(outcome)

\* a forwarded request to endpoint s fails with httpx.RequestError
ForwardFailure(s) ==
    \E r \in Reqs : req[r].service_url = s /\ ProxyReply(r, "request_error")

\* C15: the probe loop never terminates, whatever the probes end in (it
\* starts a new round again and again); an endpoint whose probes succeed
\* from some point on and that has no forwarding failure from then on is
\* eventually in the healthy set and stays there; an endpoint whose probes
\* fail from some point on is eventually outside the healthy set and stays
\* outside.
C15_MonitorConverges ==
    /\ []<><<HealthCheckSleep>>_vars
    /\ \A s \in Range(services) :
          /\ <>[][(ProbeOf(s) => HealthCheckProbe("200")) /\ ~ForwardFailure(s)]_vars
                => <>[](s \in Range(healthy_services))
          /\ <>[][ProbeOf(s) => ~HealthCheckProbe("200")]_vars
                => <>[](s \notin Range(healthy_services))

\* a round has ended after a probe failure took an endpoint out and while a
\* forwarding failure has taken another out
C15_Witness ==
    /\ hc_pos = 0
    /\ Len(healthy_services) = 1
    /\ \E r \in Reqs : req[r].status = 503 /\ req[r].service_url # None

\* the position in hist of the mark_healthy call that last put s back
LastUp(s) ==
    LET idx == {i \in DOMAIN hist : hist[i] = [op |-> "up", svc |-> s]}
    IN  IF idx = {} THEN 0 ELSE CHOOSE i \in idx : \A j \in idx : j <= i

\* C16 as stated: in every reachable state healthy_services is a subsequence
\* of services that preserves the relative configured order of its elements.
C16_ConfiguredSubsequence == healthy_services = HealthyConfigured

\* C16 as amended: in every reachable state healthy_services holds configured
\* endpoints only, each at most once, in the order in which they entered the
\* list: the endpoints that were never removed first, in their configured
\* order, then the re-added ones in the order of their last mark_healthy.
C16_InsertionOrder ==
    /\ Range(healthy_services) \subseteq Range(services)
    /\ \A i, j \in DOMAIN healthy_services :
          i < j =>
            LET x == healthy_services[i]
                y == healthy_services[j]
            IN  /\ x # y
                /\ LastUp(x) <= LastUp(y)
                /\ LastUp(x) = LastUp(y) => PosIn(services, x) < PosIn(services, y)

\* A and B were both taken out, B came back first and A after it
C16_Witness ==
    /\ healthy_services = <<C, B, A>>
    /\ 0 < LastUp(B)
    /\ LastUp(B) < LastUp(A)

\* healthy is a list of configured endpoints without repetition
WellFormedPool(healthy) ==
    /\ Range(healthy) \subseteq Range(services)
    /\ \A i, j \in DOMAIN healthy : i # j => healthy[i] # healthy[j]

\* C17: under every interleaving of the request handlers (selection, await,
\* possibly mark_unhealthy) with the health monitor (probe, then mark_healthy
\* or mark_unhealthy), the healthy set always holds configured endpoints
\* without repetition, the cursor never decreases, and every selection either
\* returns the element at an index inside the healthy list or raises the
\* no-healthy-endpoints 503 (when, and only when, the list is empty).
C17_PoolIntegrity ==
    [][/\ WellFormedPool(healthy_services)
       /\ WellFormedPool(healthy_services')
       /\ current_index' >= current_index
       /\ \A r \in Reqs :
             ProxySelect(r) =>
               IF healthy_services = <<>>
               THEN /\ req'[r].pc = "returning"
                    /\ req'[r].status = 503
                    /\ req'[r].service_url = None
               ELSE /\ (current_index % Len(healthy_services)) + 1
                          \in DOMAIN healthy_services
                    /\ req'[r].pc = "forwarding"
                    /\ req'[r].service_url \in Range(healthy_services)
                    /\ current_index' = current_index + 1
      ]_vars

\* two requests await their backends; since they were routed the monitor, in
\* the middle of a round, has taken one of the two endpoints out
C17_Witness ==
    \E r1, r2 \in Reqs :
        /\ r1 # r2
        /\ req[r1].pc = "forwarding"
        /\ req[r2].pc = "forwarding"
        /\ req[r1].service_url \notin Range(healthy_services)
        /\ req[r2].service_url \in Range(healthy_services)
        /\ hc_pos \in 2..Len(BACKEND_SERVICES)
        /\ current_index = 2

\* request r holds the 503 of a failed forward to endpoint s
FailedOn(r, s) == req[r].status = 503 /\ req[r].service_url = s

\* C18: with requests in flight concurrently, for each endpoint and each
\* period between its entering the healthy set and its next removal, at most
\* one request routed to it ends in the transport-failure 503 (while no
\* endpoint re-enters the healthy set: no two requests hold the 503 of the
\* same endpoint).
C18_BlastRadius ==
    \A s \in Range(services) : \A r1, r2 \in Reqs :
        (FailedOn(r1, s) /\ FailedOn(r2, s)) => r1 = r2

\* C19: the monitor's position moves only by a probe or by the end of the
\* sleep; a round probes the configured endpoints one after the other, each
\* once, and a probe's outcome is applied (200 -> mark_healthy, anything else
\* -> mark_unhealthy) in the step that moves on to the next probe; the sleep
\* starts after the last endpoint of the round and the next round starts
\* with the first endpoint when the sleep is over.
C19_ProbeRounds ==
    [][/\ hc_pos \in 0..Len(BACKEND_SERVICES)
       /\ hc_pos' # hc_pos =>
             IF hc_pos = 0
             THEN /\ hc_pos' = 1
                  /\ healthy_services' = healthy_services
             ELSE /\ hc_pos' = IF hc_pos = Len(BACKEND_SERVICES) THEN 0 ELSE hc_pos + 1
                  /\ \E outcome \in ProbeOutcomes : HealthCheckProbe(outcome)
       /\ \A outcome \in ProbeOutcomes :
             HealthCheckProbe(outcome) =>
                 healthy_services' =
                     IF outcome = "200"
                     THEN mark_healthy(healthy_services, BACKEND_SERVICES[hc_pos])
                     ELSE mark_unhealthy(healthy_services, BACKEND_SERVICES[hc_pos])
      ]_vars

\* with no request routed, two full rounds have taken A out and put it back
\* and the monitor sleeps
C19_Witness ==
    /\ hc_pos = 0
    /\ current_index = 0
    /\ healthy_services = <<B, C, A>>

\* C20: whenever the middleware rejects a request with 429, the `remaining`
\* it reports (body and X-RateLimit-Remaining) is 0, also when the clock
\* advances between is_allowed, get_remaining_requests and get_reset_time.
C20_Consistent429 ==
    \A r \in Reqs : req[r].status = 429 => req[r].remaining = 0

====
